---- MODULE Spec2Model ----
(***************************************************************************)
(* A model of scrape_seo.py: the batch loop of main, the meta-view capture *)
(* with its window sizing, the metadata extractor, the head-markup         *)
(* collector and the filename sanitizer.                                   *)
(*                                                                         *)
(* A Python str is a sequence of one-character strings, so the empty       *)
(* string is << >>.  A Python dict is a sequence of <<key, value>> pairs   *)
(* in insertion order.                                                     *)
(***************************************************************************)
EXTENDS Integers, Sequences, FiniteSets, TLC

VARIABLES
    pc,        \* main: position in main()
    urls,      \* main: the list load_urls returned
    results,   \* main: the list of per-URL records
    driver,    \* main: the browser: window size and loaded page
    shots,     \* main: the screenshots save_screenshot wrote, with their geometry
    trace,     \* main: what the browser and parser did for each URL processed so far
    csvFile,   \* main: content of the CSV file
    jsonFile,  \* main: content of the JSON file
    exitCode,  \* main: the value main returned (or the interpreter's exit status)
    su,        \* sanitizer: the input string
    sout,      \* sanitizer: sanitize_filename(su)
    sout2,     \* sanitizer: sanitize_filename(sout)
    sphase,    \* sanitizer: position
    doc,       \* extractor: the parsed document
    rec,       \* extractor: extract_meta(doc, url)
    frag,      \* extractor: the lines collect_head_meta_markup gathered
    dphase,    \* extractor: position
    genv,      \* geometry: what the renderer does during one meta-view capture
    gwin,      \* geometry: the window size
    gout,      \* geometry: outcome of screenshot_meta_view
    gphase     \* geometry: position

mainVars == <<pc, urls, results, driver, shots, trace, csvFile, jsonFile, exitCode>>
sanVars  == <<su, sout, sout2, sphase>>
docVars  == <<doc, rec, frag, dphase>>
geomVars == <<genv, gwin, gout, gphase>>
vars     == <<mainVars, sanVars, docVars, geomVars>>

----------------------------------------------------------------------------
(* Bounds *)

MaxUrls   == 3   \* longest URL list
MaxPieces == 3   \* sanitizer inputs are made of at most this many pieces
MaxTags   == 3   \* most tags in a document
HSpan     == 3   \* measured heights are taken this far around each sample height

----------------------------------------------------------------------------
(* Strings *)

Max(a, b) == IF a >= b THEN a ELSE b
Min(a, b) == IF a <= b THEN a ELSE b

Empty == << >>

Drop(s, n) == SubSeq(s, n + 1, Len(s))

HasPrefix(s, p) == Len(s) >= Len(p) /\ SubSeq(s, 1, Len(p)) = p

RECURSIVE Flatten(_)
Flatten(ss) == IF ss = << >> THEN << >> ELSE Head(ss) \o Flatten(Tail(ss))

Whitespace == {" ", "\t", "\n"}

\* str.strip()
RECURSIVE LStrip(_)
LStrip(s) == IF s # << >> /\ Head(s) \in Whitespace THEN LStrip(Tail(s)) ELSE s

RECURSIVE RStrip(_)
RStrip(s) ==
    IF s # << >> /\ s[Len(s)] \in Whitespace THEN RStrip(SubSeq(s, 1, Len(s) - 1)) ELSE s

Strip(s) == RStrip(LStrip(s))

Upper == <<"A", "B", "C", "D", "E", "F", "G", "H", "I", "J", "K", "L", "M",
           "N", "O", "P", "Q", "R", "S", "T", "U", "V", "W", "X", "Y", "Z">>
Lower == <<"a", "b", "c", "d", "e", "f", "g", "h", "i", "j", "k", "l", "m",
           "n", "o", "p", "q", "r", "s", "t", "u", "v", "w", "x", "y", "z">>
Digits == {"0", "1", "2", "3", "4", "5", "6", "7", "8", "9"}

\* str.lower(), character by character
LowerChar(c) ==
    IF \E i \in 1..Len(Upper) : Upper[i] = c
    THEN Lower[CHOOSE i \in 1..Len(Upper) : Upper[i] = c]
    ELSE c

ToLower(s) == [i \in 1..Len(s) |-> LowerChar(s[i])]

----------------------------------------------------------------------------
(* sanitize_filename *)

SchemeHttp  == <<"h", "t", "t", "p", ":", "/", "/">>
SchemeHttps == <<"h", "t", "t", "p", "s", ":", "/", "/">>
Screenshot  == <<"s", "c", "r", "e", "e", "n", "s", "h", "o", "t">>

\* the characters of [A-Za-z0-9._-]
SafeChars ==
    {Upper[i] : i \in 1..Len(Upper)} \cup {Lower[i] : i \in 1..Len(Lower)}
        \cup Digits \cup {".", "_", "-"}

\* re.sub(r"^https?://", "", url): one match, at the start only, case-sensitive
StripScheme(url) ==
    IF HasPrefix(url, SchemeHttps) THEN Drop(url, Len(SchemeHttps))
    ELSE IF HasPrefix(url, SchemeHttp) THEN Drop(url, Len(SchemeHttp))
    ELSE url

\* cleaned.replace("/", "_")
ReplaceSlash(s) == [i \in 1..Len(s) |-> IF s[i] = "/" THEN "_" ELSE s[i]]

\* a variant that leaves a colon in place
ReplaceUnsafeKeepColon(s) ==
    [i \in 1..Len(s) |-> IF s[i] \in SafeChars \cup {":"} THEN s[i] ELSE "_"]

\* re.sub(r"[^A-Za-z0-9._-]", "_", cleaned)
ReplaceUnsafe(s) == [i \in 1..Len(s) |-> IF s[i] \in SafeChars THEN s[i] ELSE "_"]

sanitize_filename(url) ==
    LET cleaned == ReplaceUnsafe(ReplaceSlash(StripScheme(url)))
    IN  IF cleaned = Empty THEN Screenshot ELSE cleaned

----------------------------------------------------------------------------
(* Python dicts, as sequences of <<key, value>> pairs in insertion order *)

HasKey(d, k) == \E i \in 1..Len(d) : d[i][1] = k

\* d.get(k, default)
Get(d, k, default) ==
    IF HasKey(d, k) THEN d[CHOOSE i \in 1..Len(d) : d[i][1] = k][2] ELSE default

\* d[k] = v
Put(d, k, v) ==
    IF HasKey(d, k)
    THEN [i \in 1..Len(d) |-> IF d[i][1] = k THEN <<k, v>> ELSE d[i]]
    ELSE Append(d, <<k, v>>)

\* list(d.keys())
Keys(d) == [i \in 1..Len(d) |-> d[i][1]]

KeySet(d) == {d[i][1] : i \in 1..Len(d)}

----------------------------------------------------------------------------
(* Parsed documents.                                                       *)
(* A tag is [kind, attrs, string]: attrs is the attribute dict, string is  *)
(* << >> for Python's None and <<s>> for the text s.  An attribute value   *)
(* is [list, toks]: a plain string s is [list |-> FALSE, toks |-> <<s>>],  *)
(* a multi-valued attribute handed over as a list of tokens is             *)
(* [list |-> TRUE, toks |-> the tokens].  A document is [hasHead, tags]:   *)
(* its title, meta and link tags in document order, inside the head when   *)
(* there is one.                                                           *)

StrVal(s)   == [list |-> FALSE, toks |-> <<s>>]
ListVal(ts) == [list |-> TRUE, toks |-> ts]
NoVal       == [list |-> TRUE, toks |-> << >>]   \* stands for None

Tag(kind, attrs, string) == [kind |-> kind, attrs |-> attrs, string |-> string]

\* the indexes of the tags of one kind, in document order: find_all(kind)
IndexesOf(tags, kind) == {i \in 1..Len(tags) : tags[i].kind = kind}

\* the elements of a sequence at the positions that satisfy Test, in order
RECURSIVE SelectIdx(_, _, _)
SelectIdx(tags, from, idxs) ==
    IF from > Len(tags) THEN << >>
    ELSE IF from \in idxs THEN <<tags[from]>> \o SelectIdx(tags, from + 1, idxs)
    ELSE SelectIdx(tags, from + 1, idxs)

find_all(tags, kind) == SelectIdx(tags, 1, IndexesOf(tags, kind))

\* tag.get(key, "") for a string-valued attribute
AttrStr(tag, key) ==
    LET v == Get(tag.attrs, key, StrVal(Empty))
    IN  IF v.toks = << >> THEN Empty ELSE v.toks[1]

\* soup.find("meta", attrs={key: value}): the first such tag, << >> when none
FindMeta(tags, key, value) ==
    LET hits == {i \in IndexesOf(tags, "meta") :
                    HasKey(tags[i].attrs, key) /\ AttrStr(tags[i], key) = value}
    IN  IF hits = {} THEN << >>
        ELSE <<tags[CHOOSE i \in hits : \A j \in hits : i <= j]>>

----------------------------------------------------------------------------
(* extract_meta *)

StrDescription  == <<"d", "e", "s", "c", "r", "i", "p", "t", "i", "o", "n">>
StrKeywords     == <<"k", "e", "y", "w", "o", "r", "d", "s">>
StrRobots       == <<"r", "o", "b", "o", "t", "s">>
StrOgDesc       == <<"o", "g", ":", "d", "e", "s", "c", "r", "i", "p", "t", "i", "o", "n">>
StrOgTitle      == <<"o", "g", ":", "t", "i", "t", "l", "e">>
StrOgUrl        == <<"o", "g", ":", "u", "r", "l">>
StrCanonical    == <<"c", "a", "n", "o", "n", "i", "c", "a", "l">>
StrAlternate    == <<"a", "l", "t", "e", "r", "n", "a", "t", "e">>
StrPreload      == <<"p", "r", "e", "l", "o", "a", "d">>
StrManifest     == <<"m", "a", "n", "i", "f", "e", "s", "t">>
StrIcon         == <<"i", "c", "o", "n">>
StrStylesheet   == <<"s", "t", "y", "l", "e", "s", "h", "e", "e", "t">>

get_meta_by_name(soup, name) ==
    LET tag == FindMeta(soup.tags, "name", name)
    IN  IF tag # << >> THEN Strip(AttrStr(tag[1], "content")) ELSE Empty

get_meta_by_property(soup, prop) ==
    LET tag == FindMeta(soup.tags, "property", prop)
    IN  IF tag # << >> THEN Strip(AttrStr(tag[1], "content")) ELSE Empty

\* "if not rel": None, an empty list or an empty string
RelFalsy(rel) == rel.toks = << >> \/ (~rel.list /\ rel.toks[1] = Empty)

\* the test get_canonical applies to one link
LinkIsCanonical(link) ==
    LET rel == Get(link.attrs, "rel", NoVal)
    IN  IF RelFalsy(rel) THEN FALSE
        ELSE IF rel.list
             THEN LET rels == [i \in 1..Len(rel.toks) |-> ToLower(rel.toks[i])]
                  IN  \E i \in 1..Len(rels) : rels[i] = StrCanonical
             ELSE ToLower(rel.toks[1]) = StrCanonical

RECURSIVE CanonicalFrom(_)
CanonicalFrom(links) ==
    IF links = << >> THEN Empty
    ELSE IF LinkIsCanonical(Head(links)) THEN Strip(AttrStr(Head(links), "href"))
    ELSE CanonicalFrom(Tail(links))

get_canonical(soup) == CanonicalFrom(find_all(soup.tags, "link"))

\* soup.title.string.strip() if soup.title and soup.title.string else ""
TitleText(soup) ==
    LET titles == find_all(soup.tags, "title")
    IN  IF titles # << >> /\ Head(titles).string # << >> /\ Head(titles).string[1] # Empty
        THEN Strip(Head(titles).string[1])
        ELSE Empty

\* a variant of DescriptionOf with the two sources the other way round
DescriptionOgFirst(soup) ==
    LET a == get_meta_by_property(soup, StrOgDesc)
    IN  IF a # Empty THEN a ELSE get_meta_by_name(soup, StrDescription)

\* get_meta_by_name("description") or get_meta_by_property("og:description")
DescriptionOf(soup) ==
    LET a == get_meta_by_name(soup, StrDescription)
    IN  IF a # Empty THEN a ELSE get_meta_by_property(soup, StrOgDesc)

extract_meta(soup, url) ==
    << <<"url", url>>,
       <<"title", TitleText(soup)>>,
       <<"description", DescriptionOf(soup)>>,
       <<"keywords", get_meta_by_name(soup, StrKeywords)>>,
       <<"canonical", get_canonical(soup)>>,
       <<"og:title", get_meta_by_property(soup, StrOgTitle)>>,
       <<"og:url", get_meta_by_property(soup, StrOgUrl)>>,
       <<"robots", get_meta_by_name(soup, StrRobots)>> >>

----------------------------------------------------------------------------
(* collect_head_meta_markup *)

AllowedRels == {StrCanonical, StrAlternate, StrPreload, StrManifest, StrIcon}

\* the test collect_head_meta_markup applies to one link of the head
LinkIsCollected(link) ==
    LET rel == Get(link.attrs, "rel", NoVal)
    IN  IF RelFalsy(rel) THEN FALSE
        ELSE LET rels == [i \in 1..Len(rel.toks) |-> ToLower(rel.toks[i])]
             IN  \E i \in 1..Len(rels) : rels[i] \in AllowedRels

\* a variant of collect_head_meta_markup that appends the title last
CollectTitleLast(soup) ==
    IF ~soup.hasHead THEN << >>
    ELSE LET titles == find_all(soup.tags, "title")
             links  == find_all(soup.tags, "link")
         IN  find_all(soup.tags, "meta")
                 \o SelectIdx(links, 1, {i \in 1..Len(links) : LinkIsCollected(links[i])})
                 \o (IF titles # << >> THEN <<Head(titles)>> ELSE << >>)

\* The fragment is kept as its lines, each line the markup of one tag
\* (str(tag)); the string returned is these lines joined by "\n".
collect_head_meta_markup(soup) ==
    IF ~soup.hasHead THEN << >>
    ELSE LET titles == find_all(soup.tags, "title")
             links  == find_all(soup.tags, "link")
         IN  (IF titles # << >> THEN <<Head(titles)>> ELSE << >>)
                 \o find_all(soup.tags, "meta")
                 \o SelectIdx(links, 1, {i \in 1..Len(links) : LinkIsCollected(links[i])})

----------------------------------------------------------------------------
(* screenshot_meta_view and the window geometry *)

InitialWidth   == 1920   \* --window-size=1920,1080
InitialHeight  == 1080
WindowWidth    == 1920   \* set_window_size(1920, height_int)
FallbackHeight == 1200   \* height_int when int(height) raises
HeightMargin   == 100
MinHeight      == 800
MaxHeight      == 6000

StrPng     == <<".", "p", "n", "g">>
StrMetaPng == <<"_", "m", "e", "t", "a", ".", "p", "n", "g">>

\* str(Path(dir) / filename)
PathJoin(dir, filename) == dir \o <<"/">> \o filename

\* a variant of ResolveHeight that clamps before it adds the margin
ResolveHeightMarginLast(height_int) ==
    Max(MinHeight, Min(height_int, MaxHeight)) + HeightMargin

\* max(800, min(height_int + 100, 6000))
ResolveHeight(height_int) == Max(MinHeight, Min(height_int + HeightMargin, MaxHeight))

(* What the renderer does during the capture is env:                       *)
(*   mget     driver.get(data_url) returns (FALSE: it raises)              *)
(*   measure  "num": execute_script returns the integer env.h;             *)
(*            "nonnum": it returns a value int() rejects;                  *)
(*            "raise": execute_script raises                               *)
(*   resize   set_window_size returns (FALSE: it raises)                   *)
(*   msave    save_screenshot returns (FALSE: it raises)                   *)
(* The result is the browser afterwards, whether an exception left the     *)
(* function, the path returned and the screenshot written (if any).        *)
screenshot_meta_view(drv, url, soup, out_dir, env) ==
    LET meta_markup == collect_head_meta_markup(soup)
        loaded      == [drv EXCEPT !.page = [data |-> TRUE, url |-> url, markup |-> meta_markup]]
        sized ==
            IF env.measure = "raise" THEN loaded
            ELSE LET height_int == IF env.measure = "nonnum" THEN FallbackHeight ELSE env.h
                 IN  IF env.resize
                     THEN [loaded EXCEPT !.win = <<WindowWidth, ResolveHeight(height_int)>>]
                     ELSE loaded
        meta_path == PathJoin(out_dir, sanitize_filename(url) \o StrMetaPng)
    IN  IF ~env.mget
        THEN [raised |-> TRUE, driver |-> drv, path |-> Empty, shot |-> << >>]
        ELSE IF ~env.msave
        THEN [raised |-> TRUE, driver |-> sized, path |-> Empty, shot |-> << >>]
        ELSE [raised |-> FALSE, driver |-> sized, path |-> meta_path,
              shot |-> <<[kind |-> "meta", path |-> meta_path, win |-> sized.win]>>]

----------------------------------------------------------------------------
(* write_csv and write_json *)

\* DictWriter._dict_to_list: the keys of a row that are no column
WrongFields(row, fieldnames) ==
    KeySet(row) \ {fieldnames[i] : i \in 1..Len(fieldnames)}

\* the cells of one row, a missing field rendered as restval ""
RowCells(row, fieldnames) == [i \in 1..Len(fieldnames) |-> Get(row, fieldnames[i], Empty)]

\* The file after write_csv and whether ValueError left it: the rows before
\* the first one with a wrong field are written, that row and the rest are not.
write_csv(rows, old) ==
    IF rows = << >> THEN [raised |-> FALSE, file |-> old]
    ELSE LET fieldnames == Keys(rows[1])
             bad == {i \in 1..Len(rows) : WrongFields(rows[i], fieldnames) # {}}
             n   == IF bad = {} THEN Len(rows)
                    ELSE (CHOOSE i \in bad : \A j \in bad : i <= j) - 1
         IN  [raised |-> bad # {},
              file   |-> [exists |-> TRUE, header |-> fieldnames,
                          rows |-> [i \in 1..n |-> RowCells(rows[i], fieldnames)]]]

\* json.dump(rows, f): the array of objects, keys in insertion order
write_json(rows) == [exists |-> TRUE, rows |-> rows]

NoCsv  == [exists |-> FALSE, header |-> << >>, rows |-> << >>]
NoJson == [exists |-> FALSE, rows |-> << >>]

----------------------------------------------------------------------------
(* The tags and documents the model draws from *)

TitleTag(text)          == Tag("title", << >>, <<text>>)
MetaName(name, content) == Tag("meta", << <<"name", StrVal(name)>>, <<"content", StrVal(content)>> >>, << >>)
MetaProp(prop, content) == Tag("meta", << <<"property", StrVal(prop)>>, <<"content", StrVal(content)>> >>, << >>)
Link(rel, href)         == Tag("link", << <<"rel", rel>>, <<"href", StrVal(href)>> >>, << >>)
LinkNoRel(href)         == Tag("link", << <<"href", StrVal(href)>> >>, << >>)

StrCanonicalCap  == <<"C", "a", "n", "o", "n", "i", "c", "a", "l">>
StrCanonicalAlt  == StrCanonical \o <<" ">> \o StrAlternate

TagPool ==
    { TitleTag(<<" ", "T", " ">>),
      MetaName(StrDescription, <<" ", "d", " ">>),
      MetaName(StrDescription, Empty),
      MetaName(StrDescription, <<" ">>),
      MetaProp(StrOgDesc, <<"o", " ">>),
      MetaName(StrKeywords, <<"k">>),
      Link(ListVal(<<StrCanonical>>), <<" ", "/", "c", " ">>),
      Link(ListVal(<<StrAlternate, StrCanonicalCap>>), <<"/", "m">>),
      Link(ListVal(<<StrAlternate>>), <<"/", "a">>),
      Link(ListVal(<<StrStylesheet>>), <<"/", "y">>),
      Link(StrVal(StrCanonicalAlt), <<"/", "s">>),
      Link(StrVal(StrCanonicalCap), <<"/", "S">>),
      LinkNoRel(<<"/", "n">>) }

Docs ==
    { [hasHead |-> h, tags |-> t] :
        h \in BOOLEAN, t \in UNION {[1..n -> TagPool] : n \in 0..MaxTags} }

UrlA == SchemeHttp \o <<"a">>
UrlB == SchemeHttps \o <<"b", "/", "c", "?", "d">>
UrlPool == {UrlA, UrlB}

\* the document the browser hands over as page_source for each URL
PageOf(url) ==
    IF url = UrlA
    THEN [hasHead |-> TRUE,
          tags |-> << MetaName(StrDescription, <<" ", "d", " ">>),
                      TitleTag(<<"T", "e", "s", "t">>),
                      Link(ListVal(<<StrCanonical>>), <<"/", "c">>) >>]
    ELSE [hasHead |-> TRUE,
          tags |-> << Link(ListVal(<<StrIcon>>), <<"/", "i">>),
                      MetaProp(StrOgDesc, <<"o">>) >>]

ScreenshotsDir     == <<"s">>
MetaScreenshotsDir == <<"m">>

----------------------------------------------------------------------------
(* main *)

\* what the browser and the parser do for one URL: see screenshot_meta_view
\* for mget, measure, h, resize and msave;
\*   nav    driver.get(url) returns (FALSE: it raises)
\*   shot   the primary save_screenshot returns (FALSE: it raises)
\*   parse  page_source, BeautifulSoup and extract_meta return (FALSE: one raises)
OkEnv == [nav |-> TRUE, shot |-> TRUE, parse |-> TRUE, mget |-> TRUE,
          measure |-> "num", h |-> 2000, resize |-> TRUE, msave |-> TRUE]

MainHeights == {500, 2000}

Envs ==
    { [OkEnv EXCEPT !.nav = FALSE], [OkEnv EXCEPT !.shot = FALSE],
      [OkEnv EXCEPT !.parse = FALSE], [OkEnv EXCEPT !.mget = FALSE],
      [OkEnv EXCEPT !.msave = FALSE],
      [OkEnv EXCEPT !.measure = "nonnum"], [OkEnv EXCEPT !.measure = "raise"] }
    \cup { [OkEnv EXCEPT !.h = h] : h \in MainHeights }

\* str(e) of the exception a failing step raises
ErrorText(env) ==
    IF ~env.nav THEN <<"navigation failed">>
    ELSE IF ~env.shot THEN <<"screenshot failed">>
    ELSE <<"parse failed">>

NoDriver == [alive |-> FALSE, win |-> <<0, 0>>,
             page |-> [data |-> FALSE, url |-> Empty, markup |-> << >>]]

\* a variant of WithMetaScreenshot without the inner try: a failed meta-view
\* capture reaches the handler of the whole iteration
WithMetaScreenshotUnguarded(meta, mv) ==
    IF mv.raised
    THEN << <<"url", Get(meta, "url", Empty)>>, <<"error", <<"meta view failed">> >>,
            <<"screenshot", Empty>> >>
    ELSE Put(meta, "meta_screenshot", mv.path)

\* try: meta_view_path = screenshot_meta_view(...) except Exception: meta_view_path = ""
\* meta["meta_screenshot"] = meta_view_path
WithMetaScreenshot(meta, mv) ==
    Put(meta, "meta_screenshot", IF mv.raised THEN Empty ELSE mv.path)

\* one iteration of the loop over urls: the record appended, the browser
\* afterwards and the screenshots written
ProcessOne(drv, url, env) ==
    LET failed_meta == << <<"url", url>>, <<"error", ErrorText(env)>>, <<"screenshot", Empty>> >>
        navigated == [drv EXCEPT !.page = [data |-> FALSE, url |-> url, markup |-> << >>]]
        screenshot_path == PathJoin(ScreenshotsDir, sanitize_filename(url) \o StrPng)
        primary == [kind |-> "page", path |-> screenshot_path, win |-> navigated.win]
        soup == PageOf(url)
        meta == Put(extract_meta(soup, url), "screenshot", screenshot_path)
        mv   == screenshot_meta_view(navigated, url, soup, MetaScreenshotsDir, env)
    IN  IF ~env.nav
        THEN [record |-> failed_meta, driver |-> drv, shots |-> << >>]
        ELSE IF ~env.shot
        THEN [record |-> failed_meta, driver |-> navigated, shots |-> << >>]
        ELSE IF ~env.parse
        THEN [record |-> failed_meta, driver |-> navigated, shots |-> <<primary>>]
        ELSE [record |-> WithMetaScreenshot(meta, mv),
              driver |-> mv.driver,
              shots  |-> <<primary>> \o mv.shot]

MainInit ==
    /\ pc = "start"
    /\ urls \in UNION {[1..n -> UrlPool] : n \in 1..MaxUrls}
    /\ results = << >>
    /\ driver = NoDriver
    /\ shots = << >>
    /\ trace = << >>
    /\ csvFile = NoCsv
    /\ jsonFile = NoJson
    /\ exitCode = << >>

\* create_webdriver returns a browser with the window of --window-size
CreateDriver ==
    /\ pc = "start"
    /\ driver' = [NoDriver EXCEPT !.alive = TRUE, !.win = <<InitialWidth, InitialHeight>>]
    /\ pc' = "loop"
    /\ UNCHANGED <<urls, results, shots, trace, csvFile, jsonFile, exitCode>>

\* create_webdriver raises WebDriverException: main returns 2
CreateDriverFails ==
    /\ pc = "start"
    /\ pc' = "done"
    /\ exitCode' = <<2>>
    /\ UNCHANGED <<urls, results, driver, shots, trace, csvFile, jsonFile>>

\* a variant of ProcessUrl with the try around the loop instead of inside it:
\* the first failing URL ends the loop
ProcessUrlAbortOnError ==
    /\ pc = "loop"
    /\ Len(results) < Len(urls)
    /\ \E env \in Envs :
          LET out == ProcessOne(driver, urls[Len(results) + 1], env)
          IN  /\ results' = Append(results, out.record)
              /\ driver' = IF HasKey(out.record, "error")
                            THEN [out.driver EXCEPT !.alive = FALSE] ELSE out.driver
              /\ pc' = IF HasKey(out.record, "error") THEN "csv" ELSE pc
              /\ shots' = shots \o out.shots
              /\ trace' = Append(trace, env)
    /\ UNCHANGED <<urls, csvFile, jsonFile, exitCode>>

\* for url in urls: one iteration, whatever the browser and parser do
ProcessUrl ==
    /\ pc = "loop"
    /\ Len(results) < Len(urls)
    /\ \E env \in Envs :
          LET out == ProcessOne(driver, urls[Len(results) + 1], env)
          IN  /\ results' = Append(results, out.record)
              /\ driver' = out.driver
              /\ shots' = shots \o out.shots
              /\ trace' = Append(trace, env)
    /\ UNCHANGED <<pc, urls, csvFile, jsonFile, exitCode>>

\* the finally clause: driver.quit()
QuitDriver ==
    /\ pc = "loop"
    /\ Len(results) = Len(urls)
    /\ driver' = [driver EXCEPT !.alive = FALSE]
    /\ pc' = "csv"
    /\ UNCHANGED <<urls, results, shots, trace, csvFile, jsonFile, exitCode>>

\* write_csv(results, args.output_csv); a ValueError leaves main uncaught
WriteCsv ==
    /\ pc = "csv"
    /\ LET out == write_csv(results, csvFile)
       IN  /\ csvFile' = out.file
           /\ pc' = IF out.raised THEN "crashed" ELSE "json"
           /\ exitCode' = IF out.raised THEN <<1>> ELSE exitCode
    /\ UNCHANGED <<urls, results, driver, shots, trace, jsonFile>>

\* write_json(results, args.output_json); return 0
WriteJson ==
    /\ pc = "json"
    /\ jsonFile' = write_json(results)
    /\ pc' = "done"
    /\ exitCode' = <<0>>
    /\ UNCHANGED <<urls, results, driver, shots, trace, csvFile>>

SanIdle  == su = << >> /\ sout = << >> /\ sout2 = << >> /\ sphase = "idle"
DocIdle  == doc = [hasHead |-> FALSE, tags |-> << >>] /\ rec = << >> /\ frag = << >> /\ dphase = "idle"
GeomIdle == genv = OkEnv /\ gwin = <<0, 0>> /\ gout = << >> /\ gphase = "idle"
MainIdle ==
    /\ pc = "idle" /\ urls = << >> /\ results = << >> /\ driver = NoDriver
    /\ shots = << >> /\ trace = << >> /\ csvFile = NoCsv /\ jsonFile = NoJson
    /\ exitCode = << >>

Init == MainInit /\ SanIdle /\ DocIdle /\ GeomIdle

Next ==
    \/ CreateDriver /\ UNCHANGED <<sanVars, docVars, geomVars>>
    \/ CreateDriverFails /\ UNCHANGED <<sanVars, docVars, geomVars>>
    \/ ProcessUrl /\ UNCHANGED <<sanVars, docVars, geomVars>>
    \/ QuitDriver /\ UNCHANGED <<sanVars, docVars, geomVars>>
    \/ WriteCsv /\ UNCHANGED <<sanVars, docVars, geomVars>>
    \/ WriteJson /\ UNCHANGED <<sanVars, docVars, geomVars>>

Spec == Init /\ [][Next]_vars

----------------------------------------------------------------------------
(* sanitize_filename applied to a string, then to its own result *)

StrHttpsUpper == <<"H", "T", "T", "P", "S", ":", "/", "/">>

Pieces ==
    { SchemeHttp, SchemeHttps, StrHttpsUpper, Screenshot,
      <<"h", "t", "t", "p", "s", ":", "/">>,
      <<"/">>, <<":">>, <<" ">>, <<"_">>, <<"a">>, <<"Z", "9", ".", "-">>, <<"?">> }

SanInputs == { Flatten(ps) : ps \in UNION {[1..n -> Pieces] : n \in 0..MaxPieces} }

SanInit ==
    /\ su \in SanInputs
    /\ sout = << >>
    /\ sout2 = << >>
    /\ sphase = "input"

Sanitize ==
    /\ sphase = "input"
    /\ sout' = sanitize_filename(su)
    /\ sphase' = "once"
    /\ UNCHANGED <<su, sout2>>

SanitizeAgain ==
    /\ sphase = "once"
    /\ sout2' = sanitize_filename(sout)
    /\ sphase' = "twice"
    /\ UNCHANGED <<su, sout>>

InitSan == SanInit /\ MainIdle /\ DocIdle /\ GeomIdle

NextSan ==
    \/ Sanitize /\ UNCHANGED <<mainVars, docVars, geomVars>>
    \/ SanitizeAgain /\ UNCHANGED <<mainVars, docVars, geomVars>>

SpecSan == InitSan /\ [][NextSan]_vars

----------------------------------------------------------------------------
(* extract_meta and collect_head_meta_markup applied to a document *)

DocInit ==
    /\ doc \in Docs
    /\ rec = << >>
    /\ frag = << >>
    /\ dphase = "parsed"

Extract ==
    /\ dphase = "parsed"
    /\ rec' = extract_meta(doc, UrlA)
    /\ dphase' = "extracted"
    /\ UNCHANGED <<doc, frag>>

Collect ==
    /\ dphase = "extracted"
    /\ frag' = collect_head_meta_markup(doc)
    /\ dphase' = "collected"
    /\ UNCHANGED <<doc, rec>>

InitDoc == DocInit /\ MainIdle /\ SanIdle /\ GeomIdle

NextDoc ==
    \/ Extract /\ UNCHANGED <<mainVars, sanVars, geomVars>>
    \/ Collect /\ UNCHANGED <<mainVars, sanVars, geomVars>>

SpecDoc == InitDoc /\ [][NextDoc]_vars

----------------------------------------------------------------------------
(* screenshot_meta_view applied to a browser, capture after capture *)

SampleHeights == {-5000, -100, 0, 500, 700, 2000, 5900, 10000}

GeomHeights == UNION { (s - HSpan)..(s + HSpan) : s \in SampleHeights }

GeomEnvs ==
    { [OkEnv EXCEPT !.h = h] : h \in GeomHeights }
    \cup { [OkEnv EXCEPT !.measure = m, !.resize = r, !.msave = s, !.mget = g] :
             m \in {"num", "nonnum", "raise"}, r \in BOOLEAN, s \in BOOLEAN, g \in BOOLEAN }

GeomInit ==
    /\ genv \in GeomEnvs
    /\ gwin = <<InitialWidth, InitialHeight>>
    /\ gout = << >>
    /\ gphase = "ready"

Capture ==
    /\ gphase = "ready"
    /\ LET drv == [NoDriver EXCEPT !.alive = TRUE, !.win = gwin]
           out == screenshot_meta_view(drv, UrlA, PageOf(UrlA), MetaScreenshotsDir, genv)
       IN  /\ gout' = <<[raised |-> out.raised, path |-> out.path]>>
           /\ gwin' = out.driver.win
    /\ gphase' = "captured"
    /\ UNCHANGED genv

\* the renderer's behaviour for the next capture
NextCapture ==
    /\ gphase = "captured"
    /\ genv' \in GeomEnvs
    /\ gphase' = "ready"
    /\ UNCHANGED <<gwin, gout>>

InitGeom == GeomInit /\ MainIdle /\ SanIdle /\ DocIdle

NextGeom ==
    \/ Capture /\ UNCHANGED <<mainVars, sanVars, docVars>>
    \/ NextCapture /\ UNCHANGED <<mainVars, sanVars, docVars>>

SpecGeom == InitGeom /\ [][NextGeom]_vars

----------------------------------------------------------------------------
(* Properties of the batch loop *)

\* the URL failed as a whole: navigation, the primary screenshot or parsing raised
UrlFailed(env) == ~env.nav \/ ~env.shot \/ ~env.parse

\* the meta-view capture raised: loading the data URL or saving the screenshot
MetaViewFailed(env) == ~env.mget \/ ~env.msave

MetadataFields ==
    <<"url", "title", "description", "keywords", "canonical", "og:title", "og:url",
      "robots", "screenshot", "meta_screenshot">>

ErrorFields == <<"url", "error", "screenshot">>

LoopIsOver == pc \in {"csv", "json", "crashed"} \/ (pc = "done" /\ exitCode # <<2>>)

\* C1: once the driver is initialized the loop appends exactly one record per
\* URL, in input order: record i carries url i, it is the error variant
\* {url, error, screenshot = ""} when URL i failed and a well-formed metadata
\* record when it did not, whatever happened to the URLs before and after it;
\* when the loop is over there are as many records as URLs.
C1_BatchIsolation ==
    /\ Len(results) = Len(trace)
    /\ Len(results) <= Len(urls)
    /\ LoopIsOver => Len(results) = Len(urls)
    /\ \A i \in 1..Len(results) :
          /\ Get(results[i], "url", << >>) = urls[i]
          /\ IF UrlFailed(trace[i])
             THEN /\ Keys(results[i]) = ErrorFields
                  /\ Get(results[i], "screenshot", <<"none">>) = Empty
                  /\ Get(results[i], "error", Empty) # Empty
             ELSE /\ Keys(results[i]) = MetadataFields
                  /\ Get(results[i], "screenshot", Empty) # Empty

\* three URLs, the second failed to load, the first and the third did not fail
C1_Witness ==
    /\ pc = "csv"
    /\ Len(urls) = 3
    /\ Len(results) = 3
    /\ ~UrlFailed(trace[1]) /\ ~trace[2].nav /\ ~UrlFailed(trace[3])
    /\ HasKey(results[2], "error")
    /\ ~HasKey(results[1], "error") /\ ~HasKey(results[3], "error")

\* C2: after a successful driver initialization the run never stops short:
\* whatever mix of metadata and error records the batch produced, it writes
\* the CSV file with every record, then the JSON file, and returns 0.
C2_RunFinishes ==
    /\ pc # "crashed"
    /\ (pc = "done" /\ exitCode # <<2>>) =>
          /\ exitCode = <<0>>
          /\ csvFile.exists /\ Len(csvFile.rows) = Len(results)
          /\ jsonFile.exists /\ jsonFile.rows = results

\* C8: a URL that did not fail keeps a success record with every extracted
\* field and the primary screenshot path, whether or not its meta-view
\* capture failed; only meta_screenshot differs, empty when the capture
\* failed.  This holds at every position, so a failed capture changes no
\* other URL's record.
C8_MetaFailureRecovered ==
    \A i \in 1..Len(results) :
        ~UrlFailed(trace[i]) =>
            LET expected == extract_meta(PageOf(urls[i]), urls[i])
                page_path == ScreenshotsDir \o <<"/">> \o sanitize_filename(urls[i]) \o StrPng
                meta_path == MetaScreenshotsDir \o <<"/">> \o sanitize_filename(urls[i]) \o StrMetaPng
            IN  /\ Keys(results[i]) = MetadataFields
                /\ \A k \in 1..Len(expected) :
                      Get(results[i], expected[k][1], <<"none">>) = expected[k][2]
                /\ Get(results[i], "screenshot", Empty) = page_path
                /\ Get(results[i], "meta_screenshot", <<"none">>) =
                      IF MetaViewFailed(trace[i]) THEN Empty ELSE meta_path

\* a URL whose meta-view capture failed, between two URLs whose captures did not
C8_Witness ==
    /\ Len(results) = 3
    /\ \A i \in 1..3 : ~UrlFailed(trace[i])
    /\ MetaViewFailed(trace[2]) /\ ~MetaViewFailed(trace[1]) /\ ~MetaViewFailed(trace[3])
    /\ Get(results[2], "meta_screenshot", <<"none">>) = Empty
    /\ urls[2] = UrlA
    /\ Get(results[2], "title", Empty) = <<"T", "e", "s", "t">>
    /\ Get(results[3], "meta_screenshot", Empty) # Empty

\* C10: every primary (full-page) screenshot is captured in the initial
\* 1920 x 1080 window, whatever URLs were processed before it.
C10_PrimaryGeometryFixed ==
    \A i \in 1..Len(shots) :
        shots[i].kind = "page" => shots[i].win = <<InitialWidth, InitialHeight>>

----------------------------------------------------------------------------
(* Properties of the meta-view capture *)

\* clamp(x, lo, hi), by cases
Clamp(x, lo, hi) == IF x < lo THEN lo ELSE IF x > hi THEN hi ELSE x

\* the capture got as far as the height measurement
Measured == gphase = "captured" /\ genv.mget

\* C3: for every integer measured height h the capture resizes the window to
\* 1920 x clamp(h + 100, 800, 6000), so 800 <= height <= 6000; in particular
\* 500 -> 800, 700 -> 800, 2000 -> 2100, 10000 -> 6000.
C3_RenderGeometry ==
    (Measured /\ genv.measure = "num" /\ genv.resize) =>
        /\ gwin = <<1920, Clamp(genv.h + 100, 800, 6000)>>
        /\ gwin[2] >= 800 /\ gwin[2] <= 6000
        /\ genv.h = 500 => gwin[2] = 800
        /\ genv.h = 700 => gwin[2] = 800
        /\ genv.h = 2000 => gwin[2] = 2100
        /\ genv.h = 10000 => gwin[2] = 6000

\* a measured height of 2000 resized the window to 1920 x 2100
C3_Witness ==
    /\ Measured /\ genv.measure = "num" /\ genv.resize
    /\ genv.h = 2000
    /\ gwin = <<1920, 2100>>

\* C4: whenever the height measurement fails, because the query raises or
\* because it returns a non-numeric value, the fallback 1200 is used: the
\* window is resized to 1920 x 1300, no error leaves the measurement step and
\* the meta screenshot is still captured.
C4_MeasurementFallback ==
    (Measured /\ genv.measure \in {"raise", "nonnum"} /\ genv.resize /\ genv.msave) =>
        /\ gwin = <<1920, 1300>>
        /\ ~gout[1].raised
        /\ gout[1].path # Empty

----------------------------------------------------------------------------
(* Properties of sanitize_filename *)

BareSchemes == {Empty, SchemeHttp, SchemeHttps}

OnlySafeChars(s) == \A i \in 1..Len(s) : s[i] \in SafeChars

\* C7 as stated: the result is non-empty, made of [A-Za-z0-9._-] only, equal
\* to "screenshot" exactly when stripping the leading scheme leaves nothing,
\* and unchanged by a second application.
C7_AsStated ==
    sphase = "twice" =>
        /\ sout # Empty
        /\ OnlySafeChars(sout)
        /\ (sout = Screenshot) <=> (su \in BareSchemes)
        /\ sout2 = sout

\* C7 amended: the result is non-empty, made of [A-Za-z0-9._-] only and
\* unchanged by a second application; it is "screenshot" when stripping the
\* leading scheme leaves nothing, and otherwise only when what is left is
\* itself the string "screenshot".
C7_SanitizeClosedIdempotent ==
    sphase = "twice" =>
        /\ sout # Empty
        /\ OnlySafeChars(sout)
        /\ (sout = Screenshot) <=>
              (su \in BareSchemes \cup {Screenshot, SchemeHttp \o Screenshot, SchemeHttps \o Screenshot})
        /\ sout2 = sout

\* a repeated scheme with an unsafe character after it, sanitized twice
C7_Witness ==
    /\ sphase = "twice"
    /\ su = SchemeHttps \o SchemeHttp \o <<"?">>
    /\ sout = <<"h", "t", "t", "p", "_", "_", "_", "_">>
    /\ sout2 = sout

----------------------------------------------------------------------------
(* Properties of extract_meta and collect_head_meta_markup *)

\* the smallest element of a non-empty set of integers
Least(S) == CHOOSE i \in S : \A j \in S : i <= j

\* the positions of the meta tags whose attribute key has the value value
MetasWith(key, value) ==
    {i \in 1..Len(doc.tags) :
        /\ doc.tags[i].kind = "meta"
        /\ \E k \in 1..Len(doc.tags[i].attrs) :
              doc.tags[i].attrs[k] = <<key, StrVal(value)>>}

\* the trimmed content attribute of the tag at position i
ContentAt(i) ==
    LET hits == {k \in 1..Len(doc.tags[i].attrs) : doc.tags[i].attrs[k][1] = "content"}
    IN  IF hits = {} THEN Empty ELSE Strip(doc.tags[i].attrs[Least(hits)][2].toks[1])

DescriptionField == Get(rec, "description", <<"none">>)

\* C5 as stated: with a name="description" tag present, whatever its content,
\* description is its trimmed content; with none but an og:description tag,
\* description is the trimmed og:description content; with neither, it is empty.
C5_AsStated ==
    dphase # "parsed" =>
        LET named == MetasWith("name", StrDescription)
            og    == MetasWith("property", StrOgDesc)
        IN  DescriptionField =
                IF named # {} THEN ContentAt(Least(named))
                ELSE IF og # {} THEN ContentAt(Least(og))
                ELSE Empty

\* C5 amended: description is the trimmed content of the first
\* name="description" tag when that is not empty; when there is no such tag
\* or its trimmed content is empty, description is the trimmed content of the
\* first og:description tag, and the empty string when there is none.
C5_DescriptionResolution ==
    dphase # "parsed" =>
        LET named == MetasWith("name", StrDescription)
            og    == MetasWith("property", StrOgDesc)
        IN  DescriptionField =
                IF named # {} /\ ContentAt(Least(named)) # Empty THEN ContentAt(Least(named))
                ELSE IF og # {} THEN ContentAt(Least(og))
                ELSE Empty

\* a whitespace-only name="description" tag before an og:description tag:
\* description is the og:description value
C5_Witness ==
    /\ dphase = "extracted"
    /\ Len(doc.tags) = 2
    /\ doc.tags[1] = MetaName(StrDescription, <<" ">>)
    /\ doc.tags[2] = MetaProp(StrOgDesc, <<"o", " ">>)
    /\ DescriptionField = <<"o">>

\* str.split(): the whitespace-separated tokens of a string
RECURSIVE SplitWs(_, _)
SplitWs(s, cur) ==
    IF s = << >> THEN (IF cur = << >> THEN << >> ELSE <<cur>>)
    ELSE IF Head(s) \in Whitespace
         THEN (IF cur = << >> THEN << >> ELSE <<cur>>) \o SplitWs(Tail(s), << >>)
         ELSE SplitWs(Tail(s), Append(cur, Head(s)))

\* the rel attribute of a tag as a set of lower-case tokens, whichever way
\* the parser handed it over
RelTokenSet(tag) ==
    LET hits == {k \in 1..Len(tag.attrs) : tag.attrs[k][1] = "rel"}
        rel  == tag.attrs[Least(hits)][2]
        toks == IF rel.list THEN rel.toks ELSE SplitWs(rel.toks[1], << >>)
    IN  IF hits = {} THEN {} ELSE {ToLower(toks[i]) : i \in 1..Len(toks)}

HrefOf(tag) ==
    LET hits == {k \in 1..Len(tag.attrs) : tag.attrs[k][1] = "href"}
    IN  IF hits = {} THEN Empty ELSE Strip(tag.attrs[Least(hits)][2].toks[1])

\* C6: canonical is the trimmed href of the first <link>, in document order,
\* whose rel, as a set of tokens compared case-insensitively, contains
\* "canonical", whether rel is handed over as a list or as one string;
\* it is empty when no link matches.
C6_CanonicalResolution ==
    dphase # "parsed" =>
        LET matching == {i \in 1..Len(doc.tags) :
                            doc.tags[i].kind = "link" /\ StrCanonical \in RelTokenSet(doc.tags[i])}
        IN  Get(rec, "canonical", <<"none">>) =
                IF matching = {} THEN Empty ELSE HrefOf(doc.tags[Least(matching)])

\* the tags of a sequence that are of one kind, in order
OfKind(tags, kind) == SelectSeq(tags, LAMBDA t : t.kind = kind)

\* a link is selected when a token of its rel list, or its rel handed over as
\* one string taken whole, is in the allow-set, case-insensitively
LinkSelectedWhole(tag) ==
    /\ tag.kind = "link"
    /\ \E k \in 1..Len(tag.attrs) :
          /\ tag.attrs[k][1] = "rel"
          /\ \E i \in 1..Len(tag.attrs[k][2].toks) : ToLower(tag.attrs[k][2].toks[i]) \in AllowedRels

\* the positions of the tags the fragment selects: the first title, every
\* meta tag, every selected link
SelectedInHead ==
    {i \in 1..Len(doc.tags) :
        \/ doc.tags[i].kind = "title" /\ \A j \in 1..(i - 1) : doc.tags[j].kind # "title"
        \/ doc.tags[i].kind = "meta"
        \/ LinkSelectedWhole(doc.tags[i])}

\* C9 as stated: the selected tags appear in the fragment in the order of the
\* document's head, none dropped or duplicated; no head gives the empty fragment.
C9_AsStated ==
    dphase = "collected" =>
        frag = IF doc.hasHead
               THEN [k \in 1..Cardinality(SelectedInHead) |->
                       doc.tags[CHOOSE i \in SelectedInHead :
                                  Cardinality({j \in SelectedInHead : j <= i}) = k]]
               ELSE << >>

KindRank(kind) == IF kind = "title" THEN 1 ELSE IF kind = "meta" THEN 2 ELSE 3

\* C9 amended: the fragment holds the first title of the head (if any), then
\* every meta tag, then every selected link: tags of one kind keep their
\* document order, none is dropped or duplicated, but the kinds are grouped
\* title, meta, link whatever their interleaving in the head; a rel handed
\* over as one string is matched whole; no head gives the empty fragment.
C9_HeadMarkupGrouped ==
    dphase = "collected" =>
        IF ~doc.hasHead THEN frag = << >>
        ELSE /\ \A i, j \in 1..Len(frag) : i < j => KindRank(frag[i].kind) <= KindRank(frag[j].kind)
             /\ OfKind(frag, "title") =
                   (IF OfKind(doc.tags, "title") = << >> THEN << >>
                    ELSE <<Head(OfKind(doc.tags, "title"))>>)
             /\ OfKind(frag, "meta") = OfKind(doc.tags, "meta")
             /\ OfKind(frag, "link") = SelectSeq(doc.tags, LinkSelectedWhole)

\* a head with a canonical link, then a meta tag, then the title: the
\* fragment holds the three in the order title, meta, link
C9_Witness ==
    /\ dphase = "collected"
    /\ doc.hasHead
    /\ Len(doc.tags) = 3
    /\ doc.tags[1].kind = "link" /\ doc.tags[2].kind = "meta" /\ doc.tags[3].kind = "title"
    /\ frag = <<doc.tags[3], doc.tags[2], doc.tags[1]>>

====
